---- MODULE Spec2Model ----
(***************************************************************************)
(* A model of the foodgram backend: the recipe create/update handlers that *)
(* replace a recipe's ingredient rows and tag links inside                 *)
(* transaction.atomic(), and the shopping-cart download that aggregates    *)
(* the ingredients of the recipes in a user's cart.                        *)
(*                                                                         *)
(* The relational store is modelled at READ COMMITTED: a statement sees    *)
(* the committed rows plus the uncommitted writes of its own transaction;  *)
(* a transaction's writes become visible to others at commit, all at once; *)
(* a DELETE waits for rows another open transaction has deleted; an INSERT *)
(* waits for an equal-key row another open transaction has inserted and    *)
(* raises IntegrityError against a visible equal-key row.  Each request is *)
(* a process p whose position pc[p] advances one database statement at a   *)
(* time.                                                                   *)
(***************************************************************************)
EXTENDS Integers, Sequences, FiniteSets, TLC

(***************************************************************************)
(* Bounds of the model.                                                    *)
(***************************************************************************)
\* longest ingredient list and longest tag list of a request
MaxLen == 2
\* largest amount a request carries
MaxAmount == 2
\* recipes ever created (ids 1..MaxRecipes)
MaxRecipes == 1
\* recipes of the stores the download is run against (ids 1..MaxCart)
MaxCart == 2

(***************************************************************************)
(* Reference data (Ingredient and Tag rows, managed out of band) and users *)
(***************************************************************************)
IngredientData ==
    <<[name |-> "Flour", measurement_unit |-> "g"],
      [name |-> "Milk", measurement_unit |-> "ml"]>>

Ingredient == DOMAIN IngredientData

Tag == {1, 2}

CustomUser == {"alice", "bob"}

\* IntegerField(min_value=1) of IngredientForRecipeSerializer.amount
min_value == 1

\* primary keys a request may carry: the existing ones and one that is absent
IngredientRefs == Ingredient \cup {Len(IngredientData) + 1}

TagRefs == Tag \cup {Cardinality(Tag) + 1}

\* the users whose recipe-create requests the model follows
Authors == {"alice"}

Procs == {1, 2, 3}

VARIABLES
    db,       \* the committed tables
    nextId,   \* the Recipe table's id sequence
    pc,       \* pc[p]: the statement request p executes next
    req,      \* req[p]: the request p serves
    loc,      \* loc[p]: the handler's local variables
    tx,       \* tx[p]: the uncommitted writes of p's open transaction
    resp,     \* resp[p]: the outcome of the request
    file,     \* the content of MEDIA_ROOT/shopping_list.txt
    history   \* history[p]: the committed tables when request p arrived,
              \* followed by the committed tables after each later commit

vars == <<db, nextId, pc, req, loc, tx, resp, file, history>>

(***************************************************************************)
(* Helpers                                                                 *)
(***************************************************************************)
Range(s) == {s[i] : i \in DOMAIN s}

SeqsUpTo(S, n) == UNION {[1..k -> S] : k \in 0..n}

EmptyTables ==
    [Recipe |-> {}, IngredientInRecipe |-> {}, recipe_tags |-> {},
     ShoppingCart |-> {}, Favorite |-> {}, Subscription |-> {}]

NoTx == [active |-> FALSE, del |-> EmptyTables, ins |-> EmptyTables]

NoReq == [kind |-> "none", user |-> "none", pk |-> 0,
          ingredients |-> <<>>, tags |-> <<>>]

NoLoc == [instance |-> 0, old_ids |-> {}, rows |-> {}, i |-> 0,
          shopping_cart |-> <<>>, n |-> 0, all |-> <<>>, k |-> 0,
          ingredients |-> <<>>, body |-> <<>>]

\* the committed tables when request p arrived
Before(p) == history[p][1]

\* history after a commit that leaves the committed tables `d`
Recorded(d) ==
    [q \in Procs |-> IF pc[q] \in {"idle", "done"} THEN history[q]
                     ELSE Append(history[q], d)]

(***************************************************************************)
(* The store at READ COMMITTED                                             *)
(***************************************************************************)
\* what a statement of p sees: the committed rows and p's own writes
View(p) ==
    [t \in DOMAIN db |-> (db[t] \ tx[p].del[t]) \cup tx[p].ins[t]]

\* the committed tables once p's transaction commits
Committed(p) ==
    [t \in DOMAIN db |-> (db[t] \ tx[p].del[t]) \cup tx[p].ins[t]]

\* a rollback that keeps the writes made so far (no atomic block)
RolledBack_KeepsWrites(p) == Committed(p)

\* the committed tables once p's transaction rolls back: its writes are dropped
RolledBack(p) == db

\* p's writes after DELETE of `rows` from table t
TxDelete(p, t, rows) ==
    [tx EXCEPT ![p].active = TRUE,
               ![p].del[t] = @ \cup rows,
               ![p].ins[t] = @ \ rows]

\* p's writes after INSERT of `rows` into table t
TxInsert(p, t, rows) ==
    [tx EXCEPT ![p].active = TRUE, ![p].ins[t] = @ \cup rows]

\* a row of `rows` is deleted, uncommitted, by another open transaction
LockedByOther(p, t, rows) ==
    \E q \in Procs \ {p} : tx[q].active /\ tx[q].del[t] \cap rows # {}

RecipeIngredientKey(row) == <<row.recipe, row.ingredient>>

RecipeTagKey(row) == <<row.recipe, row.tag>>

\* unique_shopping_cart and unique_favorite
UserRecipeKey(row) == <<row.user, row.recipe>>

\* the unique key of a row of table t (the primary key where the table
\* declares no other)
KeyOf(t, row) ==
    CASE t = "recipe_tags" -> RecipeTagKey(row)
      [] t = "IngredientInRecipe" -> RecipeIngredientKey(row)
      [] t \in {"ShoppingCart", "Favorite"} -> UserRecipeKey(row)
      [] OTHER -> <<row.id>>

\* another open transaction has inserted, uncommitted, a row of `rows`' key
PendingInsert(p, t, rows) ==
    \E q \in Procs \ {p} :
        /\ tx[q].active
        /\ \E a \in tx[q].ins[t], b \in rows : KeyOf(t, a) = KeyOf(t, b)

(***************************************************************************)
(* Input validation: serializer.is_valid(raise_exception=True)             *)
(***************************************************************************)
\* field-level checks that accept a tag primary key without looking it up
FieldErrors_NoTagLookup(data) ==
    \E k \in DOMAIN data.ingredients :
        \/ data.ingredients[k].id \notin Ingredient
        \/ data.ingredients[k].amount < min_value

\* the field-level checks: every primary key exists, every amount >= min_value
FieldErrors(data) ==
    \/ \E k \in DOMAIN data.ingredients :
          \/ data.ingredients[k].id \notin Ingredient
          \/ data.ingredients[k].amount < min_value
    \/ \E k \in DOMAIN data.tags : data.tags[k] \notin Tag

\* validate without the check that the tags are unique
validate_NoTagUniqueness(attrs) ==
    LET ingredients_values == [k \in DOMAIN attrs.ingredients |->
                                   attrs.ingredients[k].id]
    IN  IF attrs.ingredients = <<>> THEN "ValidationError"
        ELSE IF Len(ingredients_values) # Cardinality(Range(ingredients_values))
             THEN "ValidationError"
        ELSE IF attrs.tags = <<>> THEN "ValidationError"
        ELSE "ok"

\* RecipeCreateSerializer.validate
validate(attrs) ==
    LET ingredients_values == [k \in DOMAIN attrs.ingredients |->
                                   attrs.ingredients[k].id]
    IN  IF attrs.ingredients = <<>> THEN "ValidationError"
        ELSE IF Len(ingredients_values) # Cardinality(Range(ingredients_values))
             THEN "ValidationError"
        ELSE IF attrs.tags = <<>> THEN "ValidationError"
        ELSE IF Len(attrs.tags) # Cardinality(Range(attrs.tags))
             THEN "ValidationError"
        ELSE "ok"

is_valid(data) ==
    IF FieldErrors(data) THEN "ValidationError" ELSE validate(data)

\* the amounts a request may carry: one the field rejects, the smallest it
\* accepts, and the largest of the model
Amounts == {min_value - 1, min_value, MaxAmount}

IngredientItems ==
    [id : IngredientRefs, amount : Amounts]

\* every request body within the bounds
RecipeInputs ==
    [ingredients : SeqsUpTo(IngredientItems, MaxLen),
     tags : SeqsUpTo(TagRefs, MaxLen)]

\* the request bodies that reach serializer.save()
ValidInputs == {data \in RecipeInputs : is_valid(data) = "ok"}

Ascending(s) == \A j \in 1..(Len(s) - 1) : s[j] < s[j + 1]

\* the valid request bodies that list their ingredients and their tags by
\* ascending primary key (one body per set of rows and set of tags)
WriterInputs ==
    {data \in ValidInputs :
        /\ Ascending([j \in DOMAIN data.ingredients |-> data.ingredients[j].id])
        /\ Ascending(data.tags)}

(***************************************************************************)
(* Initial state: an empty store, no request in flight                     *)
(***************************************************************************)
Init ==
    /\ db = EmptyTables
    /\ nextId = 1
    /\ pc = [p \in Procs |-> "idle"]
    /\ req = [p \in Procs |-> NoReq]
    /\ loc = [p \in Procs |-> NoLoc]
    /\ tx = [p \in Procs |-> NoTx]
    /\ resp = [p \in Procs |-> "none"]
    /\ file = <<>>
    /\ history = [p \in Procs |-> <<>>]

(***************************************************************************)
(* RecipeViewSet.create and RecipeViewSet.partial_update, up to save()     *)
(***************************************************************************)
RecipeViewSet_create(p, user, data) ==
    /\ pc[p] = "idle"
    /\ nextId <= MaxRecipes
    /\ req' = [req EXCEPT ![p] = [kind |-> "create", user |-> user, pk |-> 0,
                                  ingredients |-> data.ingredients,
                                  tags |-> data.tags]]
    /\ history' = [history EXCEPT ![p] = <<db>>]
    /\ IF is_valid(data) = "ok"
       THEN /\ pc' = [pc EXCEPT ![p] = "create_recipe"]
            /\ resp' = resp
       ELSE /\ pc' = [pc EXCEPT ![p] = "done"]
            /\ resp' = [resp EXCEPT ![p] = is_valid(data)]
    /\ UNCHANGED <<db, nextId, loc, tx, file>>

RecipeViewSet_partial_update(p, user, pk, data) ==
    /\ pc[p] = "idle"
    /\ req' = [req EXCEPT ![p] = [kind |-> "update", user |-> user, pk |-> pk,
                                  ingredients |-> data.ingredients,
                                  tags |-> data.tags]]
    /\ history' = [history EXCEPT ![p] = <<db>>]
    /\ LET found == {r \in db.Recipe : r.id = pk}
       IN  IF found = {}
           THEN /\ pc' = [pc EXCEPT ![p] = "done"]
                /\ resp' = [resp EXCEPT ![p] = "NotFound"]
                /\ loc' = loc
           ELSE IF \E r \in found : r.author # user
           THEN /\ pc' = [pc EXCEPT ![p] = "done"]
                /\ resp' = [resp EXCEPT ![p] = "PermissionDenied"]
                /\ loc' = loc
           ELSE IF is_valid(data) # "ok"
           THEN /\ pc' = [pc EXCEPT ![p] = "done"]
                /\ resp' = [resp EXCEPT ![p] = is_valid(data)]
                /\ loc' = loc
           ELSE /\ pc' = [pc EXCEPT ![p] = "tags_select"]
                /\ resp' = resp
                /\ loc' = [loc EXCEPT ![p].instance = pk]
    /\ UNCHANGED <<db, nextId, tx, file>>

(***************************************************************************)
(* RecipeCreateSerializer.create / RecipeUpdateSerializer.update, one      *)
(* statement per step, inside transaction.atomic()                         *)
(***************************************************************************)
\* Recipe.objects.create(author=user, ...)
create_recipe(p) ==
    /\ pc[p] = "create_recipe"
    /\ tx' = TxInsert(p, "Recipe", {[id |-> nextId, author |-> req[p].user]})
    /\ nextId' = nextId + 1
    /\ loc' = [loc EXCEPT ![p].instance = nextId]
    /\ pc' = [pc EXCEPT ![p] = "tags_select"]
    /\ UNCHANGED <<db, req, resp, history, file>>

\* tags.set(): old_ids = the tag ids the recipe is linked to
tags_select(p) ==
    /\ pc[p] = "tags_select"
    /\ loc' = [loc EXCEPT ![p].old_ids =
                  {l.tag : l \in {m \in View(p).recipe_tags :
                                      m.recipe = loc[p].instance}}]
    /\ tx' = [tx EXCEPT ![p].active = TRUE]
    /\ pc' = [pc EXCEPT ![p] = "tags_remove"]
    /\ UNCHANGED <<db, nextId, req, resp, history, file>>

\* the links tags.set() removes: the old ids the request does not name
TagsToRemove(p) ==
    {l \in View(p).recipe_tags :
        /\ l.recipe = loc[p].instance
        /\ l.tag \in loc[p].old_ids \ Range(req[p].tags)}

\* tags.set(): self.remove(*old_ids)
tags_remove(p) ==
    /\ pc[p] = "tags_remove"
    /\ ~LockedByOther(p, "recipe_tags", TagsToRemove(p))
    /\ tx' = TxDelete(p, "recipe_tags", TagsToRemove(p))
    /\ pc' = [pc EXCEPT ![p] = "tags_add"]
    /\ UNCHANGED <<db, nextId, req, loc, resp, history, file>>

\* the links tags.set() adds: the requested ids that were not among the old
TagsToAdd(p) ==
    {[recipe |-> loc[p].instance, tag |-> t] :
        t \in Range(req[p].tags) \ loc[p].old_ids}

\* tags.set(): self.add(*new_objs), an INSERT that ignores conflicts
tags_add(p) ==
    /\ pc[p] = "tags_add"
    /\ ~PendingInsert(p, "recipe_tags", TagsToAdd(p))
    /\ tx' = TxInsert(p, "recipe_tags", TagsToAdd(p) \ View(p).recipe_tags)
    /\ loc' = [loc EXCEPT ![p].i = 1]
    /\ pc' = [pc EXCEPT ![p] = IF req[p].kind = "create"
                                 THEN "create_ingredient" ELSE "clear"]
    /\ UNCHANGED <<db, nextId, req, resp, history, file>>

\* a clear() that deletes nothing: the new rows are merged into the old
RowsToClear_Nothing(p) == {}

\* the rows instance.ingredients.clear() deletes: every row of the recipe
RowsToClear(p) ==
    {row \in View(p).IngredientInRecipe : row.recipe = loc[p].instance}

\* instance.ingredients.clear()
clear(p) ==
    /\ pc[p] = "clear"
    /\ ~LockedByOther(p, "IngredientInRecipe", RowsToClear(p))
    /\ tx' = TxDelete(p, "IngredientInRecipe", RowsToClear(p))
    /\ pc' = [pc EXCEPT ![p] = "create_ingredient"]
    /\ UNCHANGED <<db, nextId, req, loc, resp, history, file>>

\* instance.ingredients.clear() meets a row that another open transaction has
\* deleted: the DELETE has chosen its rows (those it saw when it started) and
\* waits for that transaction to end
clear_wait(p) ==
    /\ pc[p] = "clear"
    /\ LockedByOther(p, "IngredientInRecipe", RowsToClear(p))
    /\ loc' = [loc EXCEPT ![p].rows = RowsToClear(p)]
    /\ tx' = [tx EXCEPT ![p].active = TRUE]
    /\ pc' = [pc EXCEPT ![p] = "clear_resume"]
    /\ UNCHANGED <<db, nextId, req, resp, history, file>>

\* the other transaction has ended: the DELETE removes the rows it had chosen
\* that are still there, and none that were inserted since it started
clear_resume(p) ==
    /\ pc[p] = "clear_resume"
    /\ ~LockedByOther(p, "IngredientInRecipe", loc[p].rows)
    /\ tx' = TxDelete(p, "IngredientInRecipe",
                      loc[p].rows \cap View(p).IngredientInRecipe)
    /\ pc' = [pc EXCEPT ![p] = "create_ingredient"]
    /\ UNCHANGED <<db, nextId, req, loc, resp, history, file>>

\* the row the loop's i-th IngredientInRecipe.objects.create() inserts
NewRow(p) ==
    [recipe |-> loc[p].instance,
     ingredient |-> req[p].ingredients[loc[p].i].id,
     amount |-> req[p].ingredients[loc[p].i].amount]

\* a store that does not check unique_recipe_ingredient
UniqueViolation_Never(p, row) == FALSE

\* unique_recipe_ingredient: a visible row holds the new row's key
UniqueViolation(p, row) ==
    \E old \in View(p).IngredientInRecipe :
        RecipeIngredientKey(old) = RecipeIngredientKey(row)

\* for ingredient in validated_data['ingredients']: IngredientInRecipe.objects.create(...)
create_ingredient(p) ==
    /\ pc[p] = "create_ingredient"
    /\ ~PendingInsert(p, "IngredientInRecipe", {NewRow(p)})
    /\ IF UniqueViolation(p, NewRow(p))
       THEN /\ db' = RolledBack(p)
            /\ tx' = [tx EXCEPT ![p] = NoTx]
            /\ resp' = [resp EXCEPT ![p] = "IntegrityError"]
            /\ pc' = [pc EXCEPT ![p] = "done"]
            /\ loc' = loc
       ELSE /\ tx' = TxInsert(p, "IngredientInRecipe", {NewRow(p)})
            /\ loc' = [loc EXCEPT ![p].i = @ + 1]
            /\ pc' = [pc EXCEPT ![p] =
                        IF loc[p].i < Len(req[p].ingredients)
                        THEN "create_ingredient"
                        ELSE IF req[p].kind = "create" THEN "commit" ELSE "save"]
            /\ UNCHANGED <<db, resp>>
    /\ UNCHANGED <<nextId, req, history, file>>

\* instance.save(): UPDATE the recipe's row, INSERT it when no row was updated
save(p) ==
    /\ pc[p] = "save"
    /\ LET mine == {r \in View(p).Recipe : r.id = loc[p].instance}
       IN  tx' = IF mine = {}
                 THEN TxInsert(p, "Recipe", {[id |-> loc[p].instance,
                                              author |-> req[p].user]})
                 ELSE tx
    /\ pc' = [pc EXCEPT ![p] = "commit"]
    /\ UNCHANGED <<db, nextId, req, loc, resp, history, file>>

\* leaving the with transaction.atomic() block: COMMIT
commit(p) ==
    /\ pc[p] = "commit"
    /\ db' = Committed(p)
    /\ tx' = [tx EXCEPT ![p] = NoTx]
    /\ resp' = [resp EXCEPT ![p] = IF req[p].kind = "create"
                                     THEN "Created" ELSE "OK"]
    /\ pc' = [pc EXCEPT ![p] = "done"]
    /\ history' = Recorded(Committed(p))
    /\ UNCHANGED <<nextId, req, loc, file>>

InAtomic(p) ==
    pc[p] \in {"tags_select", "tags_remove", "tags_add", "clear",
               "clear_resume", "create_ingredient", "save", "commit"}

\* a statement inside the atomic block raises (the store reports an error):
\* the exception leaves the block and the transaction rolls back
DatabaseError(p) ==
    /\ InAtomic(p)
    /\ db' = RolledBack(p)
    /\ tx' = [tx EXCEPT ![p] = NoTx]
    /\ resp' = [resp EXCEPT ![p] = "DatabaseError"]
    /\ pc' = [pc EXCEPT ![p] = "done"]
    /\ UNCHANGED <<nextId, req, loc, history, file>>

\* the response is sent; the worker is free for the next request
Respond(p) ==
    /\ pc[p] = "done"
    /\ pc' = [pc EXCEPT ![p] = "idle"]
    /\ req' = [req EXCEPT ![p] = NoReq]
    /\ loc' = [loc EXCEPT ![p] = NoLoc]
    /\ resp' = [resp EXCEPT ![p] = "none"]
    /\ history' = [history EXCEPT ![p] = <<>>]
    /\ UNCHANGED <<db, nextId, tx, file>>

\* the statements create and update share
AtomicStep(p) ==
    \/ tags_select(p)
    \/ tags_remove(p)
    \/ tags_add(p)
    \/ clear(p)
    \/ create_ingredient(p)
    \/ save(p)
    \/ commit(p)

WriterStep(p) ==
    \/ create_recipe(p)
    \/ AtomicStep(p)

\* the statements of an update that runs while another transaction is open
ConcurrentStep(p) ==
    \/ AtomicStep(p)
    \/ clear_wait(p)
    \/ clear_resume(p)

(***************************************************************************)
(* ShoppingCartViewSet.download_shopping_cart: one query per step, outside *)
(* any transaction (autocommit)                                            *)
(***************************************************************************)
\* every order in which the store may return the rows of the set S
Perms(S) == {s \in [1..Cardinality(S) -> S] : Range(s) = S}

\* ShoppingCart.objects.filter(user=user)
CartOf(d, user) == {c \in d.ShoppingCart : c.user = user}

\* a download that does not test the cart for emptiness
shopping_cart_exists_Always(p, user) == TRUE

\* shopping_cart.exists()
shopping_cart_exists(p, user) == CartOf(db, user) # {}

\* the request arrives; if not shopping_cart.exists(): return 404
download_shopping_cart(p, user) ==
    /\ pc[p] = "idle"
    /\ req' = [req EXCEPT ![p] = [NoReq EXCEPT !.kind = "download",
                                               !.user = user]]
    /\ history' = [history EXCEPT ![p] = <<db>>]
    /\ IF shopping_cart_exists(p, user)
       THEN /\ pc' = [pc EXCEPT ![p] = "for_item"]
            /\ resp' = resp
       ELSE /\ pc' = [pc EXCEPT ![p] = "done"]
            /\ resp' = [resp EXCEPT ![p] = "NotFound"]
    /\ UNCHANGED <<db, nextId, loc, tx, file>>

\* the position after the inner loop's k-th ingredient: the next ingredient,
\* the next cart item, or the rendering
AfterIngredient(p, k) ==
    IF k < Len(loc[p].all) THEN "get_amount"
    ELSE IF loc[p].n < Len(loc[p].shopping_cart) THEN "next_item"
    ELSE "write"

\* for item in shopping_cart: the queryset is evaluated, in the store's order
for_item(p) ==
    /\ pc[p] = "for_item"
    /\ \E rows \in Perms(CartOf(db, req[p].user)) :
          /\ loc' = [loc EXCEPT ![p].shopping_cart = rows, ![p].n = 0]
          /\ pc' = [pc EXCEPT ![p] = IF rows = <<>> THEN "write"
                                       ELSE "next_item"]
    /\ UNCHANGED <<db, nextId, req, tx, resp, file, history>>

\* item.recipe.ingredients.all(): the ingredients joined through the rows of
\* the item's recipe, in the store's order
next_item(p) ==
    /\ pc[p] = "next_item"
    /\ LET item == loc[p].shopping_cart[loc[p].n + 1]
           through == {row \in db.IngredientInRecipe : row.recipe = item.recipe}
       IN  IF ~\E r \in db.Recipe : r.id = item.recipe
           THEN /\ resp' = [resp EXCEPT ![p] = "DoesNotExist"]
                /\ pc' = [pc EXCEPT ![p] = "done"]
                /\ loc' = loc
           ELSE /\ \E rows \in Perms(through) :
                      /\ loc' = [loc EXCEPT
                                   ![p].n = @ + 1,
                                   ![p].all = [j \in DOMAIN rows |->
                                                  rows[j].ingredient],
                                   ![p].k = 0]
                      /\ pc' = [pc EXCEPT ![p] =
                                  IF rows # <<>> THEN "get_amount"
                                  ELSE IF loc[p].n + 1 < Len(loc[p].shopping_cart)
                                       THEN "next_item" ELSE "write"]
                /\ resp' = resp
    /\ UNCHANGED <<db, nextId, req, tx, file, history>>

\* position of the entry of `name` in the dict, 0 when the name is no key
KeyIndex(ingredients, name) ==
    IF \E j \in DOMAIN ingredients : ingredients[j].name = name
    THEN CHOOSE j \in DOMAIN ingredients : ingredients[j].name = name
    ELSE 0

\* a loop body that overwrites the amount of a known name instead of adding
Accumulate_Overwrite(ingredients, ingredient, amount) ==
    LET name == IngredientData[ingredient].name
        j == KeyIndex(ingredients, name)
    IN  IF j # 0
        THEN [ingredients EXCEPT ![j].amount = amount]
        ELSE Append(ingredients,
                    [name |-> name, amount |-> amount,
                     unit |-> IngredientData[ingredient].measurement_unit])

\* the dict after the loop body: `amount` added under the ingredient's name,
\* a new key appended with the ingredient's unit
Accumulate(ingredients, ingredient, amount) ==
    LET name == IngredientData[ingredient].name
        j == KeyIndex(ingredients, name)
    IN  IF j # 0
        THEN [ingredients EXCEPT ![j].amount = @ + amount]
        ELSE Append(ingredients,
                    [name |-> name, amount |-> amount,
                     unit |-> IngredientData[ingredient].measurement_unit])

\* item.recipe.ingredients_in_recipe.get(ingredient=ingredient).amount and
\* the update of the dict
get_amount(p) ==
    /\ pc[p] = "get_amount"
    /\ LET item == loc[p].shopping_cart[loc[p].n]
           ingredient == loc[p].all[loc[p].k + 1]
           got == {row \in db.IngredientInRecipe :
                      /\ row.recipe = item.recipe
                      /\ row.ingredient = ingredient}
       IN  IF got = {}
           THEN /\ resp' = [resp EXCEPT ![p] = "DoesNotExist"]
                /\ pc' = [pc EXCEPT ![p] = "done"]
                /\ loc' = loc
           ELSE IF Cardinality(got) > 1
           THEN /\ resp' = [resp EXCEPT ![p] = "MultipleObjectsReturned"]
                /\ pc' = [pc EXCEPT ![p] = "done"]
                /\ loc' = loc
           ELSE /\ loc' = [loc EXCEPT
                             ![p].k = @ + 1,
                             ![p].ingredients =
                                 Accumulate(@, ingredient,
                                            (CHOOSE row \in got : TRUE).amount)]
                /\ pc' = [pc EXCEPT ![p] = AfterIngredient(p, loc[p].k + 1)]
                /\ resp' = resp
    /\ UNCHANGED <<db, nextId, req, tx, file, history>>

\* '\n'.join(f'{name} - {item["amount"]} {item["unit"]}' ...): one line per
\* key of the dict, in the dict's order
shopping_list(ingredients) ==
    [j \in DOMAIN ingredients |->
        <<ingredients[j].name, "-", ingredients[j].amount, ingredients[j].unit>>]

\* with open(file_path, 'w') as f: f.write(shopping_list)
write(p) ==
    /\ pc[p] = "write"
    /\ file' = shopping_list(loc[p].ingredients)
    /\ pc' = [pc EXCEPT ![p] = "open"]
    /\ UNCHANGED <<db, nextId, req, loc, tx, resp, history>>

\* FileResponse(open(file_path, 'rb')): the response body is the file's content
open(p) ==
    /\ pc[p] = "open"
    /\ loc' = [loc EXCEPT ![p].body = file]
    /\ resp' = [resp EXCEPT ![p] = "OK"]
    /\ pc' = [pc EXCEPT ![p] = "done"]
    /\ UNCHANGED <<db, nextId, req, tx, file, history>>

ReaderStep(p) ==
    \/ for_item(p)
    \/ next_item(p)
    \/ get_amount(p)
    \/ write(p)
    \/ open(p)

(***************************************************************************)
(* SpecWriter: recipe create and update requests served one at a time,     *)
(* any statement of the atomic block may raise                             *)
(***************************************************************************)
NextWriter ==
    \/ \E user \in Authors, data \in WriterInputs :
           RecipeViewSet_create(1, user, data)
    \/ \E user \in CustomUser, pk \in 1..MaxRecipes, data \in WriterInputs :
           RecipeViewSet_partial_update(1, user, pk, data)
    \/ WriterStep(1)
    \/ DatabaseError(1)
    \/ Respond(1)

SpecWriter == Init /\ [][NextWriter]_vars

(***************************************************************************)
(* SpecRead: the download run against every store of MaxCart recipes, each *)
(* with at least one ingredient row, every cart of alice, the other users  *)
(* holding at most recipe 1; nothing writes to the store while it runs     *)
(***************************************************************************)
\* the row sets a created recipe can hold: one row per ingredient it uses
RowSets(r) ==
    {{[recipe |-> r, ingredient |-> i, amount |-> f[i]] : i \in DOMAIN f} :
        f \in UNION {[S -> {min_value, MaxAmount}] :
                        S \in SUBSET Ingredient \ {{}}}}

ReadStores ==
    {[Recipe |-> {[id |-> r, author |-> "alice"] : r \in 1..MaxCart},
      IngredientInRecipe |-> UNION {g[r] : r \in 1..MaxCart},
      recipe_tags |-> {[recipe |-> r, tag |-> 1] : r \in 1..MaxCart},
      ShoppingCart |-> {[id |-> IF x.user = "alice" THEN x.recipe
                                ELSE MaxCart + x.recipe,
                         user |-> x.user, recipe |-> x.recipe] : x \in cart},
      Favorite |-> {}, Subscription |-> {}] :
        g \in {h \in [1..MaxCart -> UNION {RowSets(r) : r \in 1..MaxCart}] :
                  \A r \in 1..MaxCart : h[r] \in RowSets(r)},
        cart \in {mine \cup others :
                     mine \in SUBSET [user : {"alice"}, recipe : 1..MaxCart],
                     others \in SUBSET [user : CustomUser \ {"alice"},
                                        recipe : {1}]}}

InitRead ==
    /\ db \in ReadStores
    /\ nextId = MaxCart + 1
    /\ pc = [p \in Procs |-> "idle"]
    /\ req = [p \in Procs |-> NoReq]
    /\ loc = [p \in Procs |-> NoLoc]
    /\ tx = [p \in Procs |-> NoTx]
    /\ resp = [p \in Procs |-> "none"]
    /\ file = <<>>
    /\ history = [p \in Procs |-> <<>>]

NextRead ==
    \/ \E user \in CustomUser : download_shopping_cart(3, user)
    \/ ReaderStep(3)

SpecRead == InitRead /\ [][NextRead]_vars

(***************************************************************************)
(* SpecValidate: one recipe request with any body within the bounds, to an *)
(* empty store or to a store holding recipe 1                              *)
(***************************************************************************)
SeededStore ==
    [Recipe |-> {[id |-> 1, author |-> "alice"]},
     IngredientInRecipe |-> {[recipe |-> 1, ingredient |-> 1,
                              amount |-> min_value]},
     recipe_tags |-> {[recipe |-> 1, tag |-> 1]},
     ShoppingCart |-> {}, Favorite |-> {}, Subscription |-> {}]

InitValidate ==
    /\ \/ db = EmptyTables /\ nextId = 1
       \/ db = SeededStore /\ nextId = 2
    /\ pc = [p \in Procs |-> "idle"]
    /\ req = [p \in Procs |-> NoReq]
    /\ loc = [p \in Procs |-> NoLoc]
    /\ tx = [p \in Procs |-> NoTx]
    /\ resp = [p \in Procs |-> "none"]
    /\ file = <<>>
    /\ history = [p \in Procs |-> <<>>]

NextValidate ==
    \/ /\ pc[1] = "idle"
       /\ \E user \in Authors, data \in RecipeInputs :
              RecipeViewSet_create(1, user, data)
    \/ /\ pc[1] = "idle"
       /\ \E user \in CustomUser, pk \in 1..(MaxRecipes + 1),
             data \in RecipeInputs :
              RecipeViewSet_partial_update(1, user, pk, data)
    \/ WriterStep(1)

SpecValidate == InitValidate /\ [][NextValidate]_vars

(***************************************************************************)
(* SpecConc: two updates of recipe 1 by its author and one download of the *)
(* author's cart, their statements interleaved                             *)
(***************************************************************************)
ConcStore ==
    [Recipe |-> {[id |-> 1, author |-> "alice"]},
     IngredientInRecipe |-> {[recipe |-> 1, ingredient |-> i,
                              amount |-> min_value] : i \in Ingredient},
     recipe_tags |-> {[recipe |-> 1, tag |-> 1]},
     ShoppingCart |-> {[id |-> 1, user |-> "alice", recipe |-> 1]},
     Favorite |-> {}, Subscription |-> {}]

\* the update bodies of the interleaved requests: every amount is MaxAmount
RaceInputs ==
    {data \in WriterInputs :
        \A j \in DOMAIN data.ingredients :
            data.ingredients[j].amount = MaxAmount}

InitConc ==
    /\ db = ConcStore
    /\ nextId = 2
    /\ pc = [p \in Procs |-> "idle"]
    /\ req = [p \in Procs |-> NoReq]
    /\ loc = [p \in Procs |-> NoLoc]
    /\ tx = [p \in Procs |-> NoTx]
    /\ resp = [p \in Procs |-> "none"]
    /\ file = <<>>
    /\ history = [p \in Procs |-> <<>>]

NextConc ==
    \/ \E p \in {1, 2}, data \in RaceInputs :
           RecipeViewSet_partial_update(p, "alice", 1, data)
    \/ \E p \in {1, 2} : ConcurrentStep(p)
    \/ download_shopping_cart(3, "alice")
    \/ ReaderStep(3)

SpecConc == InitConc /\ [][NextConc]_vars

(***************************************************************************)
(* SpecRepeat: two downloads by one user, the second after the first, run  *)
(* against every store of SpecRead; nothing writes to the store            *)
(***************************************************************************)
NextRepeat ==
    \/ \E user \in CustomUser : download_shopping_cart(1, user)
    \/ ReaderStep(1)
    \/ pc[1] = "done" /\ download_shopping_cart(2, req[1].user)
    \/ ReaderStep(2)

SpecRepeat == InitRead /\ [][NextRepeat]_vars

(***************************************************************************)
(* The claims                                                              *)
(***************************************************************************)
\* the (ingredient, amount) rows and the tags recipe r holds in the tables d
RowsOf(d, r) ==
    {<<row.ingredient, row.amount>> :
        row \in {x \in d.IngredientInRecipe : x.recipe = r}}

TagsOf(d, r) == {l.tag : l \in {x \in d.recipe_tags : x.recipe = r}}

\* the (ingredient, amount) pairs and the tags request p supplies
SuppliedRows(p) ==
    {<<req[p].ingredients[k].id, req[p].ingredients[k].amount>> :
        k \in DOMAIN req[p].ingredients}

SuppliedTags(p) == Range(req[p].tags)

IsRecipeRequest(p) == req[p].kind \in {"create", "update"}

Succeeded(p) == pc[p] = "done" /\ resp[p] \in {"Created", "OK"}

\* C1: after a successful recipe create or update, the recipe's ingredient
\* rows and tags are exactly the supplied ones, whatever it held before
C1_ReplaceIsFullOverwrite ==
    \A p \in Procs :
        (IsRecipeRequest(p) /\ Succeeded(p)) =>
            /\ RowsOf(db, loc[p].instance) = SuppliedRows(p)
            /\ TagsOf(db, loc[p].instance) = SuppliedTags(p)

\* C1 witness: a successful update of a recipe that held a row and a tag the
\* request does not supply
C1_Witness ==
    \E p \in Procs :
        /\ req[p].kind = "update" /\ Succeeded(p)
        /\ RowsOf(Before(p), loc[p].instance) \ SuppliedRows(p) # {}
        /\ TagsOf(Before(p), loc[p].instance) \ SuppliedTags(p) # {}

Failed(p) == pc[p] = "done" /\ resp[p] \in {"DatabaseError", "IntegrityError"}

\* C2: while the atomic block runs, and after it fails at any step, the
\* committed tables are those of the request's arrival: no recipe and no
\* association row of the failed request is in the store
C2_FailureRollsBack ==
    \A p \in Procs :
        (IsRecipeRequest(p) /\ (InAtomic(p) \/ Failed(p))) => db = Before(p)

\* C2 witness: an update that failed after it had removed the old rows and
\* inserted a new one
C2_Witness ==
    \E p \in Procs :
        /\ req[p].kind = "update" /\ Failed(p)
        /\ loc[p].i > 1
        /\ RowsOf(db, loc[p].instance) # {}
        /\ RowsOf(db, loc[p].instance) # SuppliedRows(p)

\* the sum of the amounts of a set of rows
RECURSIVE SumAmounts(_)
SumAmounts(rows) ==
    IF rows = {} THEN 0
    ELSE LET row == CHOOSE x \in rows : TRUE
         IN  row.amount + SumAmounts(rows \ {row})

\* the rows of ingredient i in the recipes of the user's cart
CartRows(d, user, i) ==
    {row \in d.IngredientInRecipe :
        /\ row.ingredient = i
        /\ \E c \in d.ShoppingCart : c.user = user /\ c.recipe = row.recipe}

\* one line per ingredient some cart recipe uses, with the summed amount
ExpectedLines(d, user) ==
    {<<IngredientData[i].name, "-", SumAmounts(CartRows(d, user, i)),
       IngredientData[i].measurement_unit>> :
        i \in {j \in Ingredient : CartRows(d, user, j) # {}}}

Downloaded(p) == req[p].kind = "download" /\ pc[p] = "done" /\ resp[p] = "OK"

\* C5: the downloaded list has exactly one line per ingredient used by a
\* recipe of the user's cart, its amount is the sum over the cart's recipes,
\* and no line has a zero amount
C5_OneSummedLinePerIngredient ==
    \A p \in Procs :
        Downloaded(p) =>
            /\ Range(loc[p].body) = ExpectedLines(db, req[p].user)
            /\ Len(loc[p].body) = Cardinality(ExpectedLines(db, req[p].user))
            /\ \A j \in DOMAIN loc[p].body : loc[p].body[j][3] >= 1

\* C5 witness: a download whose cart holds two recipes using one ingredient,
\* and an ingredient that no recipe of the cart uses
C5_Witness ==
    \E p \in Procs :
        /\ Downloaded(p)
        /\ \E i \in Ingredient : Cardinality(CartRows(db, req[p].user, i)) = 2
        /\ \E i \in Ingredient : CartRows(db, req[p].user, i) = {}

EmptyCartDownload(p) ==
    /\ req[p].kind = "download"
    /\ pc[p] = "done"
    /\ ~\E c \in db.ShoppingCart : c.user = req[p].user

\* C6 as claimed: a download with an empty cart succeeds with an empty list
C6_EmptyCartSucceeds ==
    \A p \in Procs :
        EmptyCartDownload(p) => resp[p] = "OK" /\ loc[p].body = <<>>

\* C6 as amended: a download with an empty cart produces no line and writes
\* no file, and is answered 404 Not Found
C6_EmptyCartIsNotFound ==
    \A p \in Procs :
        EmptyCartDownload(p) =>
            /\ resp[p] = "NotFound"
            /\ loc[p].ingredients = <<>>
            /\ loc[p].body = <<>>
            /\ file = <<>>

\* C6 witness: a finished download of a user with an empty cart, while
\* another user's cart holds a recipe
C6_Witness ==
    \E p \in Procs :
        /\ EmptyCartDownload(p)
        /\ db.ShoppingCart # {}

\* the request is malformed: no ingredient, an ingredient named twice, an
\* amount below 1, no tag, or a tag named twice
Malformed(r) ==
    \/ Len(r.ingredients) = 0
    \/ \E j, k \in DOMAIN r.ingredients :
          j # k /\ r.ingredients[j].id = r.ingredients[k].id
    \/ \E j \in DOMAIN r.ingredients : r.ingredients[j].amount < 1
    \/ Len(r.tags) = 0
    \/ \E j, k \in DOMAIN r.tags : j # k /\ r.tags[j] = r.tags[k]

\* the request reaches the serializer: a create, or an update of an existing
\* recipe by its author
ReachesSerializer(p) ==
    \/ req[p].kind = "create"
    \/ /\ req[p].kind = "update"
       /\ [id |-> req[p].pk, author |-> req[p].user] \in Before(p).Recipe

\* the request was turned down before any statement of the atomic block
RejectedUnchanged(p) ==
    /\ pc[p] = "done"
    /\ tx[p] = NoTx
    /\ db = Before(p)
    /\ loc[p] = NoLoc

\* C9: a malformed recipe request that reaches the serializer ends with
\* ValidationError, before any statement of the atomic block, and the store
\* is unchanged
C9_MalformedIsRejected ==
    \A p \in Procs :
        (ReachesSerializer(p) /\ Malformed(req[p])) =>
            RejectedUnchanged(p) /\ resp[p] = "ValidationError"

\* C9 witness: a finished request whose only defect is an existing ingredient
\* named twice, with valid amounts and one existing tag
C9_Witness ==
    \E p \in Procs :
        /\ ReachesSerializer(p) /\ pc[p] = "done"
        /\ Len(req[p].ingredients) = 2
        /\ req[p].ingredients[1].id = req[p].ingredients[2].id
        /\ req[p].ingredients[1].id \in Ingredient
        /\ \A j \in DOMAIN req[p].ingredients :
              req[p].ingredients[j].amount >= 1
        /\ Len(req[p].tags) = 1 /\ req[p].tags[1] \in Tag

\* the request names an ingredient or a tag that is not in the reference data
StaleReference(r) ==
    \/ \E j \in DOMAIN r.ingredients : r.ingredients[j].id \notin Ingredient
    \/ \E j \in DOMAIN r.tags : r.tags[j] \notin Tag

\* C10 as claimed: a request naming an absent ingredient or tag ends with
\* NotFound and leaves the store unchanged
C10_StaleReferenceIsNotFound ==
    \A p \in Procs :
        (ReachesSerializer(p) /\ StaleReference(req[p]) /\ pc[p] = "done") =>
            resp[p] = "NotFound" /\ db = Before(p)

\* C10 as amended: a request naming an absent ingredient or tag ends with
\* ValidationError, the outcome of malformed input, before any statement of
\* the atomic block, and the store is unchanged
C10_StaleReferenceIsValidationError ==
    \A p \in Procs :
        (ReachesSerializer(p) /\ StaleReference(req[p])) =>
            RejectedUnchanged(p) /\ resp[p] = "ValidationError"

\* C10 witness: a rejected request that is well-formed but names an absent tag
C10_Witness ==
    \E p \in Procs :
        /\ ReachesSerializer(p) /\ pc[p] = "done"
        /\ ~Malformed(req[p])
        /\ \E j \in DOMAIN req[p].tags : req[p].tags[j] \notin Tag
        /\ \A j \in DOMAIN req[p].ingredients :
              req[p].ingredients[j].id \in Ingredient

\* C3 as claimed: the list a download returns is the aggregation of one
\* committed state of the store, the one of its arrival or the one after a
\* later commit, never a mixture of two
C3_DownloadSeesOneCommittedState ==
    \A p \in Procs :
        Downloaded(p) =>
            \E k \in DOMAIN history[p] :
                Range(loc[p].body) = ExpectedLines(history[p][k], req[p].user)

\* C4 as claimed: when two updates of one recipe have both committed, the
\* recipe's rows and tags are those supplied by one of the two
C4_LastCommittedWins ==
    (/\ req[1].kind = "update" /\ Succeeded(1)
     /\ req[2].kind = "update" /\ Succeeded(2)
     /\ loc[1].instance = loc[2].instance) =>
        \E p \in {1, 2} :
            /\ RowsOf(db, loc[p].instance) = SuppliedRows(p)
            /\ TagsOf(db, loc[p].instance) = SuppliedTags(p)

\* C7 as claimed: two downloads by one user against an unchanged store return
\* the same lines in the same order
C7_DownloadIsDeterministic ==
    (Downloaded(1) /\ Downloaded(2) /\ req[1].user = req[2].user) =>
        loc[1].body = loc[2].body

\* C8 as claimed: a download ends with a result (the list, or the answer that
\* the cart is empty), never with an exception
C8_DownloadNeverFails ==
    \A p \in Procs :
        (req[p].kind = "download" /\ pc[p] = "done") =>
            resp[p] \in {"OK", "NotFound"}

(***************************************************************************)
(* SubscriptionViewSet.subscribe / unsubscribe: each query is a statement  *)
(* of its own (autocommit), no transaction spans the handler               *)
(***************************************************************************)
\* primary keys a subscribe request may carry: the users and one absent id
UserRefs == CustomUser \cup {"nobody"}

\* the id the store gives a new row of `rows`: the table's sequence never
\* returns an id twice, so the id is one that no row holds and no handler
\* still refers to (the smallest such)
NewId(rows) ==
    LET used == {row.id : row \in rows} \cup {loc[q].instance : q \in Procs}
    IN  CHOOSE i \in 1..(Cardinality(used) + 1) :
            /\ i \notin used
            /\ \A j \in 1..(i - 1) : j \in used

\* Subscription.objects.filter(user=user, author=author)
SubscriptionsOf(d, user, author) ==
    {row \in d.Subscription : row.user = user /\ row.author = author}

\* SubscribeCreateDeleteSerializer.validate
Subscribe_validate(method, user, author_id) ==
    IF author_id \notin CustomUser THEN "NotFound"
    ELSE IF method = "POST"
    THEN IF author_id = user THEN "ValidationError"
         ELSE IF SubscriptionsOf(db, user, author_id) # {}
              THEN "ValidationError"
         ELSE "ok"
    ELSE IF SubscriptionsOf(db, user, author_id) = {} THEN "ValidationError"
         ELSE "ok"

\* POST users/<pk>/subscribe/, up to serializer.save()
SubscriptionViewSet_subscribe(p, user, pk) ==
    /\ pc[p] = "idle"
    /\ req' = [req EXCEPT ![p] = [NoReq EXCEPT !.kind = "subscribe",
                                               !.user = user, !.pk = pk]]
    /\ history' = [history EXCEPT ![p] = <<db>>]
    /\ LET outcome == Subscribe_validate("POST", user, pk)
       IN  IF outcome = "ok"
           THEN /\ pc' = [pc EXCEPT ![p] = "subscription_create"]
                /\ resp' = resp
           ELSE /\ pc' = [pc EXCEPT ![p] = "done"]
                /\ resp' = [resp EXCEPT ![p] = outcome]
    /\ UNCHANGED <<db, nextId, loc, tx, file>>

\* SubscribeCreateDeleteSerializer.create: Subscription.objects.create(...)
subscription_create(p) ==
    /\ pc[p] = "subscription_create"
    /\ LET row == [id |-> NewId(db.Subscription), user |-> req[p].user,
                   author |-> req[p].pk]
           after == [db EXCEPT !.Subscription = @ \cup {row}]
       IN  /\ db' = after
           /\ history' = Recorded(after)
    /\ resp' = [resp EXCEPT ![p] = "Created"]
    /\ pc' = [pc EXCEPT ![p] = "done"]
    /\ UNCHANGED <<nextId, req, loc, tx, file>>

\* DELETE users/<pk>/subscribe/, up to the end of is_valid
SubscriptionViewSet_unsubscribe(p, user, pk) ==
    /\ pc[p] = "idle"
    /\ req' = [req EXCEPT ![p] = [NoReq EXCEPT !.kind = "unsubscribe",
                                               !.user = user, !.pk = pk]]
    /\ history' = [history EXCEPT ![p] = <<db>>]
    /\ LET outcome == Subscribe_validate("DELETE", user, pk)
       IN  IF outcome = "ok"
           THEN /\ pc' = [pc EXCEPT ![p] = "subscription_get"]
                /\ resp' = resp
           ELSE /\ pc' = [pc EXCEPT ![p] = "done"]
                /\ resp' = [resp EXCEPT ![p] = outcome]
    /\ UNCHANGED <<db, nextId, loc, tx, file>>

\* Subscription.objects.get(user=request.user, author_id=pk)
subscription_get(p) ==
    /\ pc[p] = "subscription_get"
    /\ LET got == SubscriptionsOf(db, req[p].user, req[p].pk)
       IN  IF got = {}
           THEN /\ resp' = [resp EXCEPT ![p] = "DoesNotExist"]
                /\ pc' = [pc EXCEPT ![p] = "done"]
                /\ loc' = loc
           ELSE IF Cardinality(got) > 1
           THEN /\ resp' = [resp EXCEPT ![p] = "MultipleObjectsReturned"]
                /\ pc' = [pc EXCEPT ![p] = "done"]
                /\ loc' = loc
           ELSE /\ loc' = [loc EXCEPT ![p].instance =
                              (CHOOSE row \in got : TRUE).id]
                /\ pc' = [pc EXCEPT ![p] = "subscription_delete"]
                /\ resp' = resp
    /\ UNCHANGED <<db, nextId, req, tx, file, history>>

\* .delete(): DELETE of the row by its primary key
subscription_delete(p) ==
    /\ pc[p] = "subscription_delete"
    /\ LET after == [db EXCEPT !.Subscription =
                        {row \in @ : row.id # loc[p].instance}]
       IN  /\ db' = after
           /\ history' = Recorded(after)
    /\ resp' = [resp EXCEPT ![p] = "NoContent"]
    /\ pc' = [pc EXCEPT ![p] = "done"]
    /\ UNCHANGED <<nextId, req, loc, tx, file>>

SubscriptionStep(p) ==
    \/ subscription_create(p)
    \/ subscription_get(p)
    \/ subscription_delete(p)

(***************************************************************************)
(* SpecSubscribe: three subscribe / unsubscribe requests, their statements *)
(* interleaved, against every store with at most one row per pair of       *)
(* different users                                                         *)
(***************************************************************************)
SubscriptionStores ==
    {[EmptyTables EXCEPT !.Subscription = rows] :
        rows \in SUBSET {[id |-> 1, user |-> "alice", author |-> "bob"],
                         [id |-> 2, user |-> "bob", author |-> "alice"]}}

InitSubscribe ==
    /\ db \in SubscriptionStores
    /\ nextId = 1
    /\ pc = [p \in Procs |-> "idle"]
    /\ req = [p \in Procs |-> NoReq]
    /\ loc = [p \in Procs |-> NoLoc]
    /\ tx = [p \in Procs |-> NoTx]
    /\ resp = [p \in Procs |-> "none"]
    /\ file = <<>>
    /\ history = [p \in Procs |-> <<>>]

NextSubscribe ==
    \/ \E p \in Procs, user \in CustomUser, pk \in UserRefs :
           SubscriptionViewSet_subscribe(p, user, pk)
    \/ \E p \in Procs, user \in CustomUser, pk \in UserRefs :
           SubscriptionViewSet_unsubscribe(p, user, pk)
    \/ \E p \in Procs : SubscriptionStep(p)

SpecSubscribe == InitSubscribe /\ [][NextSubscribe]_vars

\* C11 as claimed: in every reachable state there is at most one Subscription
\* row per (subscriber, author) pair and no row whose subscriber is its author
C11_SubscriptionIsUnique ==
    /\ \A a, b \in db.Subscription :
          (a.user = b.user /\ a.author = b.author) => a = b
    /\ \A a \in db.Subscription : a.user # a.author

(***************************************************************************)
(* ShoppingCartViewSet / FavoriteViewSet create and destroy: each query is *)
(* a statement of its own (autocommit)                                     *)
(***************************************************************************)
\* context['model'] of the request p serves
context_model(p) ==
    IF req[p].kind \in {"ShoppingCart.create", "ShoppingCart.destroy"}
    THEN "ShoppingCart" ELSE "Favorite"

\* context['model'].objects.filter(user=user, recipe=recipe)
ObjectsOf(d, model, user, recipe_id) ==
    {row \in d[model] : row.user = user /\ row.recipe = recipe_id}

\* a validate that lets a POST for a recipe the user already holds pass
Object_validate_NoPostCheck(model, method, user, recipe_id) ==
    IF ~\E r \in db.Recipe : r.id = recipe_id THEN "NotFound"
    ELSE IF method = "POST" THEN "ok"
    ELSE IF ObjectsOf(db, model, user, recipe_id) = {} THEN "ValidationError"
         ELSE "ok"

\* ObjectWithRecipeUserCreateDeleteSerializer.validate
Object_validate(model, method, user, recipe_id) ==
    IF ~\E r \in db.Recipe : r.id = recipe_id THEN "NotFound"
    ELSE IF method = "POST"
    THEN IF ObjectsOf(db, model, user, recipe_id) # {} THEN "ValidationError"
         ELSE "ok"
    ELSE IF ObjectsOf(db, model, user, recipe_id) = {} THEN "ValidationError"
         ELSE "ok"

\* POST recipes/<pk>/shopping_cart/ and POST recipes/<pk>/favorite/, up to
\* serializer.save()
Object_create(p, model, user, pk) ==
    /\ pc[p] = "idle"
    /\ req' = [req EXCEPT ![p] = [NoReq EXCEPT !.kind = model \o ".create",
                                               !.user = user, !.pk = pk]]
    /\ history' = [history EXCEPT ![p] = <<db>>]
    /\ LET outcome == Object_validate(model, "POST", user, pk)
       IN  IF outcome = "ok"
           THEN /\ pc' = [pc EXCEPT ![p] = "objects_create"]
                /\ resp' = resp
           ELSE /\ pc' = [pc EXCEPT ![p] = "done"]
                /\ resp' = [resp EXCEPT ![p] = outcome]
    /\ UNCHANGED <<db, nextId, loc, tx, file>>

ShoppingCartViewSet_create(p, user, pk) ==
    Object_create(p, "ShoppingCart", user, pk)

FavoriteViewSet_create(p, user, pk) ==
    Object_create(p, "Favorite", user, pk)

\* DELETE recipes/<pk>/shopping_cart/ and DELETE recipes/<pk>/favorite/, up
\* to the end of is_valid
Object_destroy(p, model, user, pk) ==
    /\ pc[p] = "idle"
    /\ req' = [req EXCEPT ![p] = [NoReq EXCEPT !.kind = model \o ".destroy",
                                               !.user = user, !.pk = pk]]
    /\ history' = [history EXCEPT ![p] = <<db>>]
    /\ LET outcome == Object_validate(model, "DELETE", user, pk)
       IN  IF outcome = "ok"
           THEN /\ pc' = [pc EXCEPT ![p] = "objects_get"]
                /\ resp' = resp
           ELSE /\ pc' = [pc EXCEPT ![p] = "done"]
                /\ resp' = [resp EXCEPT ![p] = outcome]
    /\ UNCHANGED <<db, nextId, loc, tx, file>>

ShoppingCartViewSet_destroy(p, user, pk) ==
    Object_destroy(p, "ShoppingCart", user, pk)

FavoriteViewSet_destroy(p, user, pk) ==
    Object_destroy(p, "Favorite", user, pk)

\* a store that does not check unique_shopping_cart / unique_favorite
UserRecipeViolation_Never(model, row) == FALSE

\* unique_shopping_cart / unique_favorite: a row holds the new row's key
UserRecipeViolation(model, row) ==
    \E old \in db[model] : UserRecipeKey(old) = UserRecipeKey(row)

\* the foreign keys to Recipe (ForeignKey(Recipe, ...) and the tags link): a
\* row of the tables d refers to a recipe that d does not hold
ForeignKeyViolation(d) ==
    \E t \in {"IngredientInRecipe", "recipe_tags", "ShoppingCart", "Favorite"} :
        \E row \in d[t] : ~\E r \in d.Recipe : r.id = row.recipe

\* the recipe's row is deleted, uncommitted, by another open transaction
RecipeLockedByOther(p, recipe_id) ==
    \E q \in Procs \ {p} :
        tx[q].active /\ \E r \in tx[q].del.Recipe : r.id = recipe_id

\* ObjectWithRecipeUserCreateDeleteSerializer.create:
\* context['model'].objects.create(user=..., recipe_id=...)
objects_create(p) ==
    /\ pc[p] = "objects_create"
    /\ LET model == context_model(p)
           row == [id |-> NewId(db[model]), user |-> req[p].user,
                   recipe |-> req[p].pk]
           after == [db EXCEPT ![model] = @ \cup {row}]
       IN  /\ ~RecipeLockedByOther(p, req[p].pk)
           /\ ~LockedByOther(p, model,
                             ObjectsOf(db, model, req[p].user, req[p].pk))
           /\ IF UserRecipeViolation(model, row) \/ ForeignKeyViolation(after)
              THEN /\ resp' = [resp EXCEPT ![p] = "IntegrityError"]
                   /\ UNCHANGED <<db, history>>
              ELSE /\ db' = after
                   /\ history' = Recorded(after)
                   /\ resp' = [resp EXCEPT ![p] = "Created"]
    /\ pc' = [pc EXCEPT ![p] = "done"]
    /\ UNCHANGED <<nextId, req, loc, tx, file>>

\* context['model'].objects.get(user=request.user, recipe_id=pk)
objects_get(p) ==
    /\ pc[p] = "objects_get"
    /\ LET got == ObjectsOf(db, context_model(p), req[p].user, req[p].pk)
       IN  IF got = {}
           THEN /\ resp' = [resp EXCEPT ![p] = "DoesNotExist"]
                /\ pc' = [pc EXCEPT ![p] = "done"]
                /\ loc' = loc
           ELSE IF Cardinality(got) > 1
           THEN /\ resp' = [resp EXCEPT ![p] = "MultipleObjectsReturned"]
                /\ pc' = [pc EXCEPT ![p] = "done"]
                /\ loc' = loc
           ELSE /\ loc' = [loc EXCEPT ![p].instance =
                              (CHOOSE row \in got : TRUE).id]
                /\ pc' = [pc EXCEPT ![p] = "objects_delete"]
                /\ resp' = resp
    /\ UNCHANGED <<db, nextId, req, tx, file, history>>

\* .delete(): DELETE of the row by its primary key
objects_delete(p) ==
    /\ pc[p] = "objects_delete"
    /\ LET model == context_model(p)
           rows == {row \in db[model] : row.id = loc[p].instance}
           after == [db EXCEPT ![model] = @ \ rows]
       IN  /\ ~LockedByOther(p, model, rows)
           /\ db' = after
           /\ history' = Recorded(after)
    /\ resp' = [resp EXCEPT ![p] = "NoContent"]
    /\ pc' = [pc EXCEPT ![p] = "done"]
    /\ UNCHANGED <<nextId, req, loc, tx, file>>

ObjectStep(p) ==
    \/ objects_create(p)
    \/ objects_get(p)
    \/ objects_delete(p)

(***************************************************************************)
(* RecipeViewSet.destroy (ModelViewSet): instance.delete() removes the     *)
(* rows that refer to the recipe (on_delete=CASCADE, the tags link) and    *)
(* the recipe's row in one transaction                                     *)
(***************************************************************************)
\* the tables whose rows refer to a recipe, in the order they are emptied
CascadeTables == <<"recipe_tags", "IngredientInRecipe", "Favorite",
                   "ShoppingCart">>

\* DELETE recipes/<pk>/, up to instance.delete()
RecipeViewSet_destroy(p, user, pk) ==
    /\ pc[p] = "idle"
    /\ req' = [req EXCEPT ![p] = [NoReq EXCEPT !.kind = "destroy",
                                               !.user = user, !.pk = pk]]
    /\ history' = [history EXCEPT ![p] = <<db>>]
    /\ LET found == {r \in db.Recipe : r.id = pk}
       IN  IF found = {}
           THEN /\ pc' = [pc EXCEPT ![p] = "done"]
                /\ resp' = [resp EXCEPT ![p] = "NotFound"]
                /\ loc' = loc
           ELSE IF \E r \in found : r.author # user
           THEN /\ pc' = [pc EXCEPT ![p] = "done"]
                /\ resp' = [resp EXCEPT ![p] = "PermissionDenied"]
                /\ loc' = loc
           ELSE /\ pc' = [pc EXCEPT ![p] = "delete_related"]
                /\ resp' = resp
                /\ loc' = [loc EXCEPT ![p].instance = pk, ![p].i = 1]
    /\ UNCHANGED <<db, nextId, tx, file>>

\* a cascade that leaves the rows of every table in place
RelatedRows_Nothing(p, t) == {}

\* the rows of table t that refer to the recipe being deleted
RelatedRows(p, t) == {row \in View(p)[t] : row.recipe = loc[p].instance}

\* the cascade: DELETE FROM <table> WHERE recipe_id = <pk>, table by table
delete_related(p) ==
    /\ pc[p] = "delete_related"
    /\ LET t == CascadeTables[loc[p].i]
       IN  /\ ~LockedByOther(p, t, RelatedRows(p, t))
           /\ tx' = TxDelete(p, t, RelatedRows(p, t))
    /\ loc' = [loc EXCEPT ![p].i = @ + 1]
    /\ pc' = [pc EXCEPT ![p] = IF loc[p].i < Len(CascadeTables)
                                 THEN "delete_related" ELSE "delete_recipe"]
    /\ UNCHANGED <<db, nextId, req, resp, history, file>>

\* DELETE of the recipe's row
delete_recipe(p) ==
    /\ pc[p] = "delete_recipe"
    /\ LET rows == {r \in View(p).Recipe : r.id = loc[p].instance}
       IN  /\ ~LockedByOther(p, "Recipe", rows)
           /\ tx' = TxDelete(p, "Recipe", rows)
    /\ pc' = [pc EXCEPT ![p] = "destroy_commit"]
    /\ UNCHANGED <<db, nextId, req, loc, resp, history, file>>

\* COMMIT of instance.delete(): the deferred foreign-key checks run; a row
\* that still refers to the recipe fails the transaction
destroy_commit(p) ==
    /\ pc[p] = "destroy_commit"
    /\ IF ForeignKeyViolation(Committed(p))
       THEN /\ db' = RolledBack(p)
            /\ resp' = [resp EXCEPT ![p] = "IntegrityError"]
            /\ history' = history
       ELSE /\ db' = Committed(p)
            /\ resp' = [resp EXCEPT ![p] = "NoContent"]
            /\ history' = Recorded(Committed(p))
    /\ tx' = [tx EXCEPT ![p] = NoTx]
    /\ pc' = [pc EXCEPT ![p] = "done"]
    /\ UNCHANGED <<nextId, req, loc, file>>

DestroyStep(p) ==
    \/ delete_related(p)
    \/ delete_recipe(p)
    \/ destroy_commit(p)

(***************************************************************************)
(* SpecCart: two cart / favorite requests and one recipe deletion, their   *)
(* statements interleaved, against every store of MaxRecipes recipes in    *)
(* which any user may hold recipe 1 in the cart and in the favorites       *)
(***************************************************************************)
\* the rows (user, recipe 1) a cart or a favorites table may start with
UserRows ==
    SUBSET {[id |-> 1, user |-> "alice", recipe |-> 1],
            [id |-> 2, user |-> "bob", recipe |-> 1]}

CartStores ==
    {[Recipe |-> {[id |-> r, author |-> "alice"] : r \in 1..MaxRecipes},
      IngredientInRecipe |-> {[recipe |-> r, ingredient |-> 1,
                               amount |-> min_value] : r \in 1..MaxRecipes},
      recipe_tags |-> {[recipe |-> r, tag |-> 1] : r \in 1..MaxRecipes},
      ShoppingCart |-> cart, Favorite |-> favorite, Subscription |-> {}] :
        cart \in UserRows, favorite \in UserRows}

\* primary keys a cart, favorite or delete request may carry: recipe 1 and
\* one that is absent
RecipeRefs == {1, MaxRecipes + 1}

InitCart ==
    /\ db \in CartStores
    /\ nextId = MaxRecipes + 1
    /\ pc = [p \in Procs |-> "idle"]
    /\ req = [p \in Procs |-> NoReq]
    /\ loc = [p \in Procs |-> NoLoc]
    /\ tx = [p \in Procs |-> NoTx]
    /\ resp = [p \in Procs |-> "none"]
    /\ file = <<>>
    /\ history = [p \in Procs |-> <<>>]

NextCart ==
    \/ \E p \in {1, 2}, user \in CustomUser, pk \in RecipeRefs :
           ShoppingCartViewSet_create(p, user, pk)
    \/ \E p \in {1, 2}, user \in CustomUser, pk \in RecipeRefs :
           ShoppingCartViewSet_destroy(p, user, pk)
    \/ \E p \in {1, 2}, user \in CustomUser, pk \in RecipeRefs :
           FavoriteViewSet_create(p, user, pk)
    \/ \E p \in {1, 2}, user \in CustomUser, pk \in RecipeRefs :
           FavoriteViewSet_destroy(p, user, pk)
    \/ \E p \in {1, 2} : ObjectStep(p)
    \/ \E user \in CustomUser, pk \in RecipeRefs :
           RecipeViewSet_destroy(3, user, pk)
    \/ DestroyStep(3)

SpecCart == InitCart /\ [][NextCart]_vars

\* the request p serves is one of the four cart / favorite requests
IsAdd(p) == req[p].kind \in {"ShoppingCart.create", "Favorite.create"}

IsRemove(p) == req[p].kind \in {"ShoppingCart.destroy", "Favorite.destroy"}

\* the rows of the request's table that hold the request's (user, recipe)
HeldRows(d, p) == ObjectsOf(d, context_model(p), req[p].user, req[p].pk)

\* two add requests for one table, one user and one recipe, both finished,
\* that found no such row when they arrived, the recipe staying in place
IdenticalAdds(p, q) ==
    /\ IsAdd(p) /\ req[q] = req[p]
    /\ pc[p] = "done" /\ pc[q] = "done"
    /\ HeldRows(Before(p), p) = {} /\ HeldRows(Before(q), q) = {}
    /\ \E r \in Before(p).Recipe : r.id = req[p].pk
    /\ pc[3] = "idle"

\* C12: in every reachable state the cart and the favorites hold at most one
\* row per (user, recipe); of two concurrent identical add requests one is
\* answered Created, the other is turned down, and one row is in the table
C12_UserRecipeIsUnique ==
    /\ \A t \in {"ShoppingCart", "Favorite"} :
          \A a, b \in db[t] :
              (a.user = b.user /\ a.recipe = b.recipe) => a = b
    /\ IdenticalAdds(1, 2) =>
          /\ Cardinality(HeldRows(db, 1)) = 1
          /\ {resp[1], resp[2]} = {"Created", "IntegrityError"}

\* C12 witness: two identical add requests that both passed validation have
\* finished while another user held the recipe in the same table
C12_Witness ==
    /\ IdenticalAdds(1, 2)
    /\ \E row \in db[context_model(1)] : row.user # req[1].user

\* C14: in every reachable state no ingredient row, tag link, favorite or
\* cart row refers to a recipe that is not in the store; a deletion by the
\* author that no cart or favorite request interleaves with succeeds and
\* leaves neither the recipe nor a row that refers to it
C14_DeleteCascades ==
    /\ \A t \in {"IngredientInRecipe", "recipe_tags", "Favorite",
                 "ShoppingCart"} :
          \A row \in db[t] : \E r \in db.Recipe : r.id = row.recipe
    /\ (/\ req[3].kind = "destroy" /\ pc[3] = "done"
        /\ [id |-> req[3].pk, author |-> req[3].user] \in Before(3).Recipe
        /\ pc[1] = "idle" /\ pc[2] = "idle") =>
          /\ resp[3] = "NoContent"
          /\ ~\E r \in db.Recipe : r.id = req[3].pk
          /\ \A user \in CustomUser :
                ~\E c \in CartOf(db, user) : c.recipe = req[3].pk

\* C14 witness: a recipe that was in a cart and in the favorites and had
\* ingredient rows and a tag has been deleted, and an add request for it
\* was turned down by the store
C14_Witness ==
    /\ req[3].kind = "destroy" /\ pc[3] = "done" /\ resp[3] = "NoContent"
    /\ \A t \in {"IngredientInRecipe", "recipe_tags", "Favorite",
                 "ShoppingCart"} :
          \E row \in Before(3)[t] : row.recipe = req[3].pk
    /\ \E p \in {1, 2} : IsAdd(p) /\ resp[p] = "IntegrityError"

(***************************************************************************)
(* SpecToggle: two cart / favorite requests, the second sent when the      *)
(* first is answered, against every store of SpecCart                      *)
(***************************************************************************)
NextToggle ==
    \/ \E user \in CustomUser, pk \in RecipeRefs :
           \/ ShoppingCartViewSet_create(1, user, pk)
           \/ ShoppingCartViewSet_destroy(1, user, pk)
           \/ FavoriteViewSet_create(1, user, pk)
           \/ FavoriteViewSet_destroy(1, user, pk)
    \/ ObjectStep(1)
    \/ /\ pc[1] = "done"
       /\ \E user \in CustomUser, pk \in RecipeRefs :
              \/ ShoppingCartViewSet_create(2, user, pk)
              \/ ShoppingCartViewSet_destroy(2, user, pk)
              \/ FavoriteViewSet_create(2, user, pk)
              \/ FavoriteViewSet_destroy(2, user, pk)
    \/ ObjectStep(2)

SpecToggle == InitCart /\ [][NextToggle]_vars

\* the committed tables when request p was answered (p = 1 or 2, request 2
\* arriving after request 1 is answered)
AfterRequest(p) == IF p = 1 /\ pc[2] # "idle" THEN Before(2) ELSE db

\* the rows of the cart and of the favorites that are not the user's
RowsOfOthers(d, user) ==
    [t \in {"ShoppingCart", "Favorite"} |->
        {row \in d[t] : row.user # user}]

\* C16: an add of a recipe the user already holds and a remove of a recipe
\* the user does not hold end with ValidationError and leave the tables
\* unchanged; a successful add followed by a successful remove of the same
\* recipe by the same user restores the tables; no request changes a row of
\* another user
C16_TogglesAreGuarded ==
    /\ \A p \in {1, 2} :
          (pc[p] = "done" /\ (IsAdd(p) \/ IsRemove(p))) =>
              /\ (IsAdd(p) /\ HeldRows(Before(p), p) # {}) =>
                    (resp[p] = "ValidationError"
                        /\ AfterRequest(p) = Before(p))
              /\ (/\ IsRemove(p) /\ HeldRows(Before(p), p) = {}
                  /\ \E r \in Before(p).Recipe : r.id = req[p].pk) =>
                    (resp[p] = "ValidationError"
                        /\ AfterRequest(p) = Before(p))
              /\ RowsOfOthers(AfterRequest(p), req[p].user)
                    = RowsOfOthers(Before(p), req[p].user)
    /\ (/\ pc[1] = "done" /\ pc[2] = "done"
        /\ IsAdd(1) /\ resp[1] = "Created"
        /\ IsRemove(2) /\ resp[2] = "NoContent"
        /\ context_model(1) = context_model(2)
        /\ req[1].user = req[2].user /\ req[1].pk = req[2].pk) =>
          db = Before(1)

\* C16 witness: an add answered Created and then a remove of the same recipe
\* by the same user answered NoContent, another user holding the recipe too
C16_Witness ==
    /\ pc[1] = "done" /\ pc[2] = "done"
    /\ IsAdd(1) /\ resp[1] = "Created"
    /\ IsRemove(2) /\ resp[2] = "NoContent"
    /\ context_model(1) = context_model(2)
    /\ req[1].user = req[2].user /\ req[1].pk = req[2].pk
    /\ RowsOfOthers(db, req[1].user)[context_model(1)] # {}

(***************************************************************************)
(* SpecDup: two recipe requests (create or update), their statements       *)
(* interleaved, against an empty store and against a store that holds      *)
(* recipe 1 with a row for every ingredient                                *)
(***************************************************************************)
DupStore ==
    [EmptyTables EXCEPT
        !.Recipe = {[id |-> 1, author |-> "alice"]},
        !.IngredientInRecipe = {[recipe |-> 1, ingredient |-> i,
                                 amount |-> min_value] : i \in Ingredient},
        !.recipe_tags = {[recipe |-> 1, tag |-> 1]}]

\* the request bodies of the interleaved requests: tag 1, any ingredients,
\* amounts min_value or MaxAmount
DupInputs ==
    {data \in WriterInputs :
        /\ data.tags = <<1>>
        /\ \A j \in DOMAIN data.ingredients :
               data.ingredients[j].amount \in {min_value, MaxAmount}}

InitDup ==
    /\ \/ db = EmptyTables /\ nextId = 1
       \/ db = DupStore /\ nextId = 2
    /\ pc = [p \in Procs |-> "idle"]
    /\ req = [p \in Procs |-> NoReq]
    /\ loc = [p \in Procs |-> NoLoc]
    /\ tx = [p \in Procs |-> NoTx]
    /\ resp = [p \in Procs |-> "none"]
    /\ file = <<>>
    /\ history = [p \in Procs |-> <<>>]

NextDup ==
    \/ \E p \in {1, 2}, data \in DupInputs :
           RecipeViewSet_create(p, "alice", data)
    \/ \E p \in {1, 2}, pk \in 1..MaxRecipes, data \in DupInputs :
           RecipeViewSet_partial_update(p, "alice", pk, data)
    \/ \E p \in {1, 2} : create_recipe(p) \/ ConcurrentStep(p)

SpecDup == InitDup /\ [][NextDup]_vars

\* C13: in every reachable state the store holds at most one ingredient row
\* per (recipe, ingredient) pair
C13_RecipeIngredientIsUnique ==
    \A a, b \in db.IngredientInRecipe :
        (a.recipe = b.recipe /\ a.ingredient = b.ingredient) => a = b

\* C13 witness: of two interleaved updates of one recipe that name the same
\* ingredient with different amounts, one committed and the other was
\* turned down by the store
C13_Witness ==
    \E p, q \in {1, 2} :
        /\ req[p].kind = "update" /\ req[q].kind = "update"
        /\ req[p].pk = req[q].pk
        /\ pc[p] = "done" /\ resp[p] = "OK"
        /\ pc[q] = "done" /\ resp[q] = "IntegrityError"
        /\ \E j \in DOMAIN req[p].ingredients, k \in DOMAIN req[q].ingredients :
              /\ req[p].ingredients[j].id = req[q].ingredients[k].id
              /\ req[p].ingredients[j].amount # req[q].ingredients[k].amount

(***************************************************************************)
(* SpecShare: two download requests served by two workers at the same      *)
(* time, against every store in which alice and bob both hold a cart;      *)
(* both requests render into the one file MEDIA_ROOT/shopping_list.txt     *)
(***************************************************************************)
ShareStores ==
    {d \in ReadStores : \A user \in CustomUser : CartOf(d, user) # {}}

InitShare ==
    /\ db \in ShareStores
    /\ nextId = MaxCart + 1
    /\ pc = [p \in Procs |-> "idle"]
    /\ req = [p \in Procs |-> NoReq]
    /\ loc = [p \in Procs |-> NoLoc]
    /\ tx = [p \in Procs |-> NoTx]
    /\ resp = [p \in Procs |-> "none"]
    /\ file = <<>>
    /\ history = [p \in Procs |-> <<>>]

NextShare ==
    \/ \E p \in {1, 2}, user \in CustomUser : download_shopping_cart(p, user)
    \/ \E p \in {1, 2} : ReaderStep(p)

SpecShare == InitShare /\ [][NextShare]_vars

\* C15: the list delivered to a download request is the aggregation of the
\* requesting user's own cart, also when the download requests of different
\* users interleave
C15_DownloadIsOwnCart ==
    \A p \in {1, 2} :
        Downloaded(p) =>
            \A j \in DOMAIN loc[p].body :
                loc[p].body[j] \in ExpectedLines(db, req[p].user)
====
